---- MODULE Spec2Model ----
(***************************************************************************)
(* Task lifecycle coordinator of the RunningHub relay server               *)
(* (src/server.ts): the socket handlers createWorkflow, taskCompleted,     *)
(* deleteTask, getClientTasks and disconnect, the waiting-queue driver     *)
(* trySubmitWaitingTask and the tasks table they share.                    *)
(*                                                                         *)
(* Every `await axios.post` is a suspension point: a handler is split into *)
(* the step that runs up to the await and the step that runs from the      *)
(* response to the end of the handler.  Everything else runs to completion.*)
(* Time is abstracted: a pending setTimeout may fire at any later moment.  *)
(* The store (better-sqlite3) works unless the envelope of the run lets    *)
(* the INSERT of saveTaskToDb fail.                                        *)
(***************************************************************************)
EXTENDS Integers, Sequences, FiniteSets, TLC

\* ---------------------------------------------------------------- constants
MAX_RETRY_ATTEMPTS == 5
INITIAL_RETRY_DELAY == 1000
RETRY_DELAY_CAP == 30000
KICK_LIMIT == 3
KICK_DELAY == 1000

\* ------------------------------------------------------------------- bounds
MaxCreate == 2      \* createWorkflow requests that reach upstream (uuids drawn)
MaxCreating == 1    \* createWorkflow handlers awaiting upstream at one time
MaxEntries == 2     \* WorkflowTask objects ever pushed on waitingTasks
MaxTaskIds == 1     \* task ids handed out by upstream
MaxAwaiting == 1    \* driver invocations awaiting upstream at one time (Spec)
RaceAwaiting == 2   \* the same, where invocations may overlap (SpecRace)
MaxTimers == 1      \* pending setTimeout(trySubmitWaitingTask) callbacks
MaxSockets == 1     \* socket connections ever opened
RaceCreate == 1     \* createWorkflow requests that reach upstream (SpecRace)
StoredRows == 2     \* records a previous run left in tasks.db (SpecRecover)
RecoverCreate == 1  \* createWorkflow requests that reach upstream (SpecRecover)
BusyCreate == 1     \* createWorkflow requests that reach upstream (SpecBusy)
BusyEntries == 4    \* WorkflowTask objects ever pushed on waitingTasks (SpecBusy)
BusyTaskIds == 3    \* task ids handed out by upstream (SpecBusy)
LiveCreate == 1     \* createWorkflow requests that reach upstream (SpecLive)
LiveEntries == 2    \* WorkflowTask objects ever pushed on waitingTasks (SpecLive)
LiveTaskIds == 2    \* task ids handed out by upstream (SpecLive)
ClientTasks == 3    \* tasks handed to the browser's addToWaitingQueue (SpecClient)
ClientTimers == 2   \* pending setTimeout(processWaitingQueue, _) callbacks (SpecClient)

\* ------------------------------------------------------------ input domains
NoId == 0                               \* null / undefined / '' of the code
ClientIds == {1}
Timestamps == {1, 2}
\* a request's nodeInfoList: without nodes named apiKey and workflowId, or with both
\* (only the second lets getClientTasks rebuild a WorkflowTask from the stored list)
NodeKinds == {"plain", "keyed"}
UpstreamStatuses == {"QUEUED", "RUNNING"}
\* what the upstream create call can come back with: 421 TASK_QUEUE_MAXED, another
\* non-success code, code 0/200 with data {taskId, taskStatus}, code 0/200 without
\* data, or a rejected promise (network error, timeout)
Answers ==
  {[resp |-> r, taskStatus |-> ""] : r \in {"capacity", "error", "ok_nodata", "throw"}}
    \cup {[resp |-> "ok_data", taskStatus |-> st] : st \in UpstreamStatuses}
FAILED_TEXT == "creation failed, retry later"
\* what the INSERTs of saveTaskToDb can do: the first one works, only the
\* fallback with four columns works, or all of them throw
Stores == {"ok", "basic", "fail"}

\* a driver that does not tell the capacity rejection from other codes
IsCapacityNever(resp) == FALSE

\* response.data.code === 421 && response.data.msg === 'TASK_QUEUE_MAXED'
IsCapacity(resp) == resp = "capacity"

\* a handler that takes no code for a success
IsSuccessNever(resp) == FALSE

\* response.data.code === 200 || response.data.code === 0
IsSuccess(resp) == resp \in {"ok_data", "ok_nodata"}

\* response.data.data is present
HasData(resp) == resp = "ok_data"

\* a handler without its catch
ThrewNever(resp) == FALSE

\* axios.post rejected: control goes to the handler's catch
Threw(resp) == resp = "throw"

VARIABLES
  tasks,                \* the tasks table, rows in insertion (rowid) order
  waitingTasks,         \* the waitingTasks array: references to WorkflowTask objects
  heap,                 \* the WorkflowTask objects still referenced, by reference
  processingTaskCount,  \* the in-flight counter
  timers,               \* pending setTimeout(trySubmitWaitingTask, _) callbacks
  creating,             \* createWorkflow handlers awaiting the upstream response
  connected,            \* ids of the live sockets
  nextSocket, nextUuid, nextTaskId, nextRef,   \* fresh-value sources
  client,               \* the browser's waitingTaskQueue module (its own waiting queue)
  out,                  \* the socket.io events the last step emitted, in order
  scheduled,            \* the delays of the setTimeout calls the last step made
  env                   \* the envelope of the run: what the environment may do

vars == <<tasks, waitingTasks, heap, processingTaskCount, timers, creating,
          connected, nextSocket, nextUuid, nextTaskId, nextRef, out, scheduled, env,
          client>>

\* ------------------------------------------------------------------ helpers
Range(s) == {s[i] : i \in 1..Len(s)}

Min(a, b) == IF a <= b THEN a ELSE b

RECURSIVE Pow2(_)
Pow2(n) == IF n = 0 THEN 1 ELSE 2 * Pow2(n - 1)

\* getRetryDelay without its 30 s cap
getRetryDelayUncapped(retryCount) == INITIAL_RETRY_DELAY * Pow2(retryCount)

\* server.ts getRetryDelay
getRetryDelay(retryCount) ==
  Min(INITIAL_RETRY_DELAY * Pow2(retryCount), RETRY_DELAY_CAP)

\* an emitted socket.io event; to = NoId is ioServer.emit (broadcast); the
\* fields are those of the payload that identify the task and tell its state
Msg(to, name, uniqueId, taskId, status) ==
  [to |-> to, name |-> name, uniqueId |-> uniqueId, taskId |-> taskId, status |-> status]

\* ioServer.emit of an event whose payload also carries the clientId, for the
\* receivers to filter on
Broadcast(name, clientId, uniqueId, taskId, status) ==
  [to |-> NoId, name |-> name, uniqueId |-> uniqueId, taskId |-> taskId,
   status |-> status, clientId |-> clientId]

\* ------------------------------------------------------------- tasks table
Row(uniqueId, taskId, clientId, status, createdAt, nodeInfoList) ==
  [uniqueId |-> uniqueId, taskId |-> taskId, clientId |-> clientId, status |-> status,
   createdAt |-> createdAt, nodeInfoList |-> nodeInfoList,
   result |-> FALSE, error |-> "", completedAt |-> FALSE]

\* saveTaskToDb whose fallback INSERT runs after the first one succeeded
saveTaskToDbTwice(db, row, store) ==
  IF row.clientId = NoId THEN db ELSE Append(Append(db, row), row)

\* saveTaskToDb: a task without clientId is refused; the INSERT of all columns;
\* if it throws, the INSERT of clientId, status, createdAt and uniqueId alone;
\* if every INSERT throws, nothing is stored and -1 is returned (no exception
\* leaves the function)
saveTaskToDb(db, row, store) ==
  IF row.clientId = NoId \/ store = "fail" THEN db
  ELSE IF store = "basic"
         THEN Append(db, [row EXCEPT !.taskId = NoId, !.nodeInfoList = "none"])
         ELSE Append(db, row)

\* the UPDATE without its taskId column
UpdateStatusOnly(db, uniqueId, taskId, status) ==
  [i \in 1..Len(db) |->
     IF db[i].uniqueId = uniqueId THEN [db[i] EXCEPT !.status = status] ELSE db[i]]

\* UPDATE tasks SET taskId = ?, status = ? WHERE uniqueId = ?
UpdateByUniqueId(db, uniqueId, taskId, status) ==
  [i \in 1..Len(db) |->
     IF db[i].uniqueId = uniqueId
       THEN [db[i] EXCEPT !.taskId = taskId, !.status = status]
       ELSE db[i]]

\* UPDATE tasks SET status = 'FAILED', error = ?, completedAt = ? WHERE createdAt = ? AND clientId = ?
UpdateFailed(db, createdAt, clientId) ==
  [i \in 1..Len(db) |->
     IF db[i].createdAt = createdAt /\ db[i].clientId = clientId
       THEN [db[i] EXCEPT !.status = "FAILED", !.error = FAILED_TEXT, !.completedAt = TRUE]
       ELSE db[i]]

\* UPDATE tasks SET status = 'SUCCESS', completedAt = ?, result = ? WHERE taskId = ?
UpdateCompleted(db, taskId, hasResult) ==
  [i \in 1..Len(db) |->
     IF db[i].taskId = taskId
       THEN [db[i] EXCEPT !.status = "SUCCESS", !.completedAt = TRUE, !.result = hasResult]
       ELSE db[i]]

\* a DELETE that matches no row
DeleteWhereNothing(db, col, val) == db

\* DELETE FROM tasks WHERE <col> = ?
DeleteWhere(db, col, val) == SelectSeq(db, LAMBDA r : r[col] # val)

\* --------------------------------------------------- WorkflowTask objects
NoObjects == [r \in {} |-> 0]

\* a WorkflowTask as createWorkflow and getClientTasks build it; retryCount -1 is
\* `undefined`; awaiting counts the trySubmitWaitingTask invocations that hold
\* the object across their await; failures is history: the failed upstream
\* answers (business error or exception) handled for this object
WorkflowTask(socketId, uniqueId, clientId, createdAt) ==
  [socketId |-> socketId, uniqueId |-> uniqueId, clientId |-> clientId,
   createdAt |-> createdAt, retryCount |-> -1, awaiting |-> 0, failures |-> 0]

\* objects no longer referenced by the array or by a suspended invocation are gone
Collect(h, q) ==
  LET live == {r \in DOMAIN h : r \in Range(q) \/ h[r].awaiting > 0}
  IN  [r \in live |-> h[r]]

\* a push that is lost
PushNothing(q, ref) == q

\* an unshift in place of the push
PushFront(q, ref) == <<ref>> \o q

\* waitingTasks.push(task)
Push(q, ref) == Append(q, ref)

\* a shift that leaves the array as it is
ShiftNothing(q) == q

\* waitingTasks.shift(): drops whatever is first now (no-op on an empty array)
Shift(q) == IF q = <<>> THEN q ELSE Tail(q)

\* waitingTasks.splice(i, 1)
Splice(q, i) == [j \in 1..(Len(q) - 1) |-> IF j < i THEN q[j] ELSE q[j + 1]]

\* a findIndex that answers the first position where it should answer "none"
FindIndexOrFirst(q, h, field, val) ==
  LET hits == {i \in 1..Len(q) : h[q[i]][field] = val}
  IN  IF hits = {} THEN (IF q = <<>> THEN 0 ELSE 1)
      ELSE CHOOSE i \in hits : \A j \in hits : i <= j

\* findIndex over waitingTasks by a field of the objects: first match or 0
FindIndex(q, h, field, val) ==
  LET hits == {i \in 1..Len(q) : h[q[i]][field] = val}
  IN  IF hits = {} THEN 0 ELSE CHOOSE i \in hits : \A j \in hits : i <= j

\* a driver that returns before its upstream call
TrySubmitStartNever(h, q) == h

\* a driver that takes the newest entry instead of the head
TrySubmitStartNewest(h, q) ==
  IF q = <<>> THEN h
  ELSE [h EXCEPT ![q[Len(q)]].retryCount = IF @ = -1 THEN 0 ELSE @,
                 ![q[Len(q)]].awaiting = @ + 1]

\* trySubmitWaitingTask up to its await: take the head, give it a retryCount, call upstream
TrySubmitStart(h, q) ==
  IF q = <<>> THEN h
  ELSE [h EXCEPT ![q[1]].retryCount = IF @ = -1 THEN 0 ELSE @,
                 ![q[1]].awaiting = @ + 1]

Awaiting(h) == {r \in DOMAIN h : h[r].awaiting > 0}

RECURSIVE SumAwaiting(_, _)
SumAwaiting(h, S) ==
  IF S = {} THEN 0
  ELSE LET r == CHOOSE x \in S : TRUE IN h[r].awaiting + SumAwaiting(h, S \ {r})

\* ---------------------------------------------------------------- sockets
\* io.on('connection')
Connect ==
  /\ nextSocket <= MaxSockets
  /\ connected' = connected \cup {nextSocket}
  /\ nextSocket' = nextSocket + 1
  /\ out' = <<>>
  /\ scheduled' = <<>>
  /\ UNCHANGED <<env, client, tasks, waitingTasks, heap, processingTaskCount, timers, creating,
                 nextUuid, nextTaskId, nextRef>>

\* a disconnect that also drops the entries the socket owns
DisconnectPurging(s) ==
  /\ s \in connected
  /\ connected' = connected \ {s}
  /\ waitingTasks' = SelectSeq(waitingTasks, LAMBDA r : heap[r].socketId # s)
  /\ heap' = Collect(heap, waitingTasks')
  /\ out' = <<>>
  /\ scheduled' = <<>>
  /\ UNCHANGED <<env, client, tasks, processingTaskCount, timers, creating,
                 nextSocket, nextUuid, nextTaskId, nextRef>>

\* socket.on('disconnect'): pendingTasks is never filled, so nothing else changes
Disconnect(s) ==
  /\ s \in connected
  /\ connected' = connected \ {s}
  /\ out' = <<>>
  /\ scheduled' = <<>>
  /\ UNCHANGED <<env, client, tasks, waitingTasks, heap, processingTaskCount, timers, creating,
                 nextSocket, nextUuid, nextTaskId, nextRef>>

\* ---------------------------------------------------------- createWorkflow
\* createWorkflow without its clientId check
CreateWorkflowUnchecked(s, clientId) ==
  /\ s \in connected
  /\ nextUuid <= env.lastUuid
  /\ Cardinality(creating) < MaxCreating
  /\ creating' = creating \cup
       {[socketId |-> s, clientId |-> clientId, uniqueId |-> nextUuid]}
  /\ nextUuid' = nextUuid + 1
  /\ out' = <<>>
  /\ scheduled' = <<>>
  /\ UNCHANGED <<env, client, tasks, waitingTasks, heap, processingTaskCount, timers,
                 connected, nextSocket, nextTaskId, nextRef>>

\* socket.on('createWorkflow') up to the await.  The handler reads data._timestamp
\* and data.nodeInfoList only after the await (createdAt is `_timestamp ||
\* new Date()` evaluated there), so they are drawn when it resumes.
CreateWorkflow(s, clientId) ==
  /\ s \in connected
  /\ IF clientId = NoId
       THEN /\ out' = <<Msg(s, "workflowError", NoId, NoId, "missingClientId")>>
            /\ UNCHANGED <<creating, nextUuid>>
       ELSE /\ nextUuid <= env.lastUuid
            /\ Cardinality(creating) < MaxCreating
            /\ creating' = creating \cup
                 {[socketId |-> s, clientId |-> clientId, uniqueId |-> nextUuid]}
            /\ nextUuid' = nextUuid + 1
            /\ out' = <<>>
  /\ scheduled' = <<>>
  /\ UNCHANGED <<env, client, tasks, waitingTasks, heap, processingTaskCount, timers,
                 connected, nextSocket, nextTaskId, nextRef>>

\* the rest of the handler, on the upstream answer `resp`; `store` is what the
\* INSERTs of saveTaskToDb do
CreateWorkflowResponse(c, createdAt, nodeInfoList, resp, taskStatus, store) ==
  /\ c \in creating
  /\ creating' = creating \ {c}
  /\ CASE ~Threw(resp) /\ (IsCapacity(resp) \/ ~IsSuccess(resp)) ->
            LET status == IF IsCapacity(resp) THEN "WAITING" ELSE "RETRY"
                kick == IsCapacity(resp) /\ processingTaskCount = 0
            IN  /\ nextRef <= env.lastRef
                /\ kick => timers < MaxTimers
                /\ heap' = heap @@ (nextRef :>
                      WorkflowTask(c.socketId, c.uniqueId, c.clientId, createdAt))
                /\ waitingTasks' = Push(waitingTasks, nextRef)
                /\ nextRef' = nextRef + 1
                /\ tasks' = saveTaskToDb(tasks,
                      Row(c.uniqueId, NoId, c.clientId, status, createdAt, nodeInfoList),
                      store)
                /\ out' = <<Msg(c.socketId, "workflowCreated", c.uniqueId, NoId, status)>>
                /\ timers' = IF kick THEN timers + 1 ELSE timers
                /\ scheduled' = IF kick THEN <<KICK_DELAY>> ELSE <<>>
                /\ UNCHANGED <<nextTaskId>>
       [] ~Threw(resp) /\ ~IsCapacity(resp) /\ IsSuccess(resp) /\ HasData(resp) ->
                /\ nextTaskId <= env.lastTaskId
                /\ tasks' = saveTaskToDb(tasks,
                      Row(c.uniqueId, nextTaskId, c.clientId, taskStatus, createdAt,
                          nodeInfoList), store)
                /\ out' = <<Msg(c.socketId, "workflowCreated", c.uniqueId, nextTaskId,
                                taskStatus)>>
                /\ nextTaskId' = nextTaskId + 1
                /\ scheduled' = <<>>
                /\ UNCHANGED <<heap, waitingTasks, nextRef, timers>>
       [] ~Threw(resp) /\ ~IsCapacity(resp) /\ IsSuccess(resp) /\ ~HasData(resp) ->
                /\ tasks' = saveTaskToDb(tasks,
                      Row(c.uniqueId, NoId, c.clientId, "SUCCESS", createdAt, nodeInfoList),
                      store)
                /\ out' = <<Msg(c.socketId, "workflowCreated", c.uniqueId, NoId, "SUCCESS")>>
                /\ scheduled' = <<>>
                /\ UNCHANGED <<heap, waitingTasks, nextRef, timers, nextTaskId>>
       [] Threw(resp) ->
                /\ out' = <<Msg(c.socketId, "workflowError", NoId, NoId, "createFailed")>>
                /\ scheduled' = <<>>
                /\ UNCHANGED <<tasks, heap, waitingTasks, nextRef, timers, nextTaskId>>
  /\ UNCHANGED <<env, client, processingTaskCount, connected, nextSocket, nextUuid>>

\* ------------------------------------------------------------------ browser queue
\* what createWaitingTask resolves to, or that it rejects
ClientAnswers == {"capacity", "success_data", "success", "failure", "throw"}

\* the module after load: waitingTasks = [], isProcessingWaitingTasks = false
ClientLoaded ==
  [waitingTasks |-> <<>>, isProcessingWaitingTasks |-> FALSE,
   awaiting |-> 0, timers |-> 0, nextUniqueId |-> 1, out |-> <<>>, scheduled |-> <<>>]

\* processWaitingQueue up to its await: returns at once on an empty queue or a
\* set flag, else sets the flag and calls createWaitingTask for waitingTasks[0]
processWaitingQueue(c) ==
  IF c.waitingTasks = <<>> \/ c.isProcessingWaitingTasks THEN c
  ELSE [c EXCEPT !.isProcessingWaitingTasks = TRUE, !.awaiting = @ + 1]

\* addToWaitingQueue(task)
AddToWaitingQueue ==
  /\ client.nextUniqueId <= ClientTasks
  /\ LET pushed == [client EXCEPT !.waitingTasks = Append(@, client.nextUniqueId),
                                  !.nextUniqueId = @ + 1,
                                  !.out = <<>>, !.scheduled = <<>>]
     IN  client' = IF ~pushed.isProcessingWaitingTasks
                   THEN processWaitingQueue(pushed) ELSE pushed
  /\ UNCHANGED <<env, tasks, waitingTasks, heap, processingTaskCount, timers, creating,
                 connected, nextSocket, nextUuid, nextTaskId, nextRef, out, scheduled>>

\* setTimeout(processWaitingQueue, _) fires
ProcessWaitingQueue ==
  /\ client.timers > 0
  /\ client' = processWaitingQueue([client EXCEPT !.timers = @ - 1,
                                                  !.out = <<>>, !.scheduled = <<>>])
  /\ UNCHANGED <<env, tasks, waitingTasks, heap, processingTaskCount, timers, creating,
                 connected, nextSocket, nextUuid, nextTaskId, nextRef, out, scheduled>>

\* createWaitingTask settles and processWaitingQueue resumes after its await
ProcessWaitingQueueResponse(resp, socketConnected) ==
  /\ client.awaiting > 0
  /\ resp \in {"success_data", "success", "failure", "throw"} =>
       client.timers < ClientTimers
  /\ LET c == [client EXCEPT !.awaiting = @ - 1, !.out = <<>>, !.scheduled = <<>>]
     IN  client' =
           CASE resp = "capacity" ->
                  [c EXCEPT !.isProcessingWaitingTasks = FALSE]
             [] resp \in {"success_data", "success"} ->
                  [c EXCEPT !.waitingTasks = Shift(@),
                            !.out = IF resp = "success_data" /\ c.waitingTasks # <<>>
                                       /\ socketConnected
                                    THEN <<[name |-> "workflowCreated",
                                            uniqueId |-> Head(c.waitingTasks)]>>
                                    ELSE <<>>,
                            !.timers = @ + 1,
                            !.scheduled = <<500>>]
             [] resp = "failure" ->
                  [c EXCEPT !.waitingTasks = Shift(@),
                            !.isProcessingWaitingTasks = FALSE,
                            !.timers = @ + 1,
                            !.scheduled = <<1000>>]
             [] resp = "throw" ->
                  [c EXCEPT !.isProcessingWaitingTasks = FALSE,
                            !.timers = @ + 1,
                            !.scheduled = <<3000>>]
  /\ UNCHANGED <<env, tasks, waitingTasks, heap, processingTaskCount, timers, creating,
                 connected, nextSocket, nextUuid, nextTaskId, nextRef, out, scheduled>>

\* onTaskCompleted()
OnTaskCompleted ==
  /\ client.timers < ClientTimers
  /\ LET c == [client EXCEPT !.out = <<>>, !.scheduled = <<>>]
     IN  client' = IF c.waitingTasks # <<>> /\ ~c.isProcessingWaitingTasks
                   THEN [c EXCEPT !.timers = @ + 1, !.scheduled = <<1000>>]
                   ELSE c
  /\ UNCHANGED <<env, tasks, waitingTasks, heap, processingTaskCount, timers, creating,
                 connected, nextSocket, nextUuid, nextTaskId, nextRef, out, scheduled>>

\* removeFromWaitingQueue(uniqueId)
RemoveFromWaitingQueue(uniqueId) ==
  /\ LET c == [client EXCEPT !.out = <<>>, !.scheduled = <<>>]
         hits == {i \in 1..Len(c.waitingTasks) : c.waitingTasks[i] = uniqueId}
     IN  client' = IF hits = {} THEN c
                   ELSE [c EXCEPT !.waitingTasks =
                           Splice(@, CHOOSE i \in hits : \A j \in hits : i <= j)]
  /\ UNCHANGED <<env, tasks, waitingTasks, heap, processingTaskCount, timers, creating,
                 connected, nextSocket, nextUuid, nextTaskId, nextRef, out, scheduled>>

\* ------------------------------------------------------------------ driver
\* setTimeout(trySubmitWaitingTask, _) fires: the invocation runs up to its await
TimerFires ==
  /\ timers > 0
  /\ SumAwaiting(heap, DOMAIN heap) < env.awaiting
  /\ timers' = timers - 1
  /\ heap' = TrySubmitStart(heap, waitingTasks)
  /\ out' = <<>>
  /\ scheduled' = <<>>
  /\ UNCHANGED <<env, client, tasks, waitingTasks, processingTaskCount, creating, connected,
                 nextSocket, nextUuid, nextTaskId, nextRef>>

\* a driver that never gives up
ShouldRetryAlways(retryCount) == TRUE

\* the comparison off by one
ShouldRetryStrict(retryCount) == retryCount < MAX_RETRY_ATTEMPTS

\* task.retryCount <= MAX_RETRY_ATTEMPTS, asked after the increment
ShouldRetry(retryCount) == retryCount <= MAX_RETRY_ATTEMPTS

\* a driver that always answers the socket id the entry carries
NotifyUpdateOwner(task, taskId, status) ==
  <<Msg(task.socketId, "workflowStatusUpdate", task.uniqueId, taskId, status)>>

\* the notification of a driver success: ioServer.sockets.sockets.get(task.socketId)
\* finds the owning socket only if the entry carries an id and that socket is
\* live; without it the update is broadcast with the clientId added
NotifyUpdate(task, taskId, status) ==
  IF task.socketId # NoId /\ task.socketId \in connected
    THEN <<Msg(task.socketId, "workflowStatusUpdate", task.uniqueId, taskId, status)>>
    ELSE <<Broadcast("workflowStatusUpdate", task.clientId, task.uniqueId, taskId, status)>>

\* the notification of a give-up: to the owning socket if it is live, else
\* none; its payload names the task by createdAt and carries no uniqueId
NotifyFailed(task) ==
  IF task.socketId # NoId /\ task.socketId \in connected
    THEN <<Msg(task.socketId, "workflowStatusUpdate", NoId, NoId, "FAILED")>>
    ELSE <<>>

\* trySubmitWaitingTask from the upstream answer on: `ref` is the object the
\* invocation took from the head before its await
TrySubmitResponse(ref, resp, taskStatus) ==
  /\ ref \in Awaiting(heap)
  /\ LET task == heap[ref]
         done == [heap EXCEPT ![ref].awaiting = @ - 1]
     IN  CASE ~Threw(resp) /\ IsCapacity(resp) ->
                /\ heap' = Collect(done, waitingTasks)
                /\ out' = <<>>
                /\ scheduled' = <<>>
                /\ UNCHANGED <<tasks, waitingTasks, processingTaskCount, timers, nextTaskId>>
         [] ~Threw(resp) /\ ~IsCapacity(resp) /\ IsSuccess(resp) /\ ~HasData(resp) ->
                /\ waitingTasks' = Shift(waitingTasks)
                /\ heap' = Collect(done, waitingTasks')
                /\ out' = <<>>
                /\ scheduled' = <<>>
                /\ UNCHANGED <<tasks, processingTaskCount, timers, nextTaskId>>
         [] ~Threw(resp) /\ ~IsCapacity(resp) /\ IsSuccess(resp) /\ HasData(resp) ->
                /\ nextTaskId <= env.lastTaskId
                /\ waitingTasks' = Shift(waitingTasks)
                /\ heap' = Collect(done, waitingTasks')
                /\ tasks' = UpdateByUniqueId(tasks, task.uniqueId, nextTaskId, taskStatus)
                /\ out' = NotifyUpdate(task, nextTaskId, taskStatus)
                /\ processingTaskCount' = processingTaskCount + 1
                /\ nextTaskId' = nextTaskId + 1
                /\ scheduled' = <<>>
                /\ UNCHANGED <<timers>>
         [] Threw(resp) \/ (~IsCapacity(resp) /\ ~IsSuccess(resp)) ->
                LET retryCount == task.retryCount + 1
                    counted == [done EXCEPT ![ref].retryCount = retryCount,
                                            ![ref].failures = @ + 1]
                IN  IF ShouldRetry(retryCount)
                      THEN /\ timers < MaxTimers
                           /\ timers' = timers + 1
                           /\ scheduled' = <<getRetryDelay(retryCount)>>
                           /\ heap' = Collect(counted, waitingTasks)
                           /\ out' = <<>>
                           /\ UNCHANGED <<tasks, waitingTasks, processingTaskCount, nextTaskId>>
                      ELSE /\ waitingTasks' = Shift(waitingTasks)
                           /\ heap' = Collect(counted, waitingTasks')
                           /\ tasks' = UpdateFailed(tasks, task.createdAt, task.clientId)
                           /\ out' = NotifyFailed(task)
                           /\ scheduled' = <<>>
                           /\ UNCHANGED <<processingTaskCount, timers, nextTaskId>>
  /\ UNCHANGED <<env, client, creating, connected, nextSocket, nextUuid, nextRef>>

\* ------------------------------------------------------------ taskCompleted
\* the decrement without its reset
DecrementUnfloored(n) == n - 1

\* processingTaskCount--; if (processingTaskCount < 0) processingTaskCount = 0
Decrement(n) == IF n - 1 < 0 THEN 0 ELSE n - 1

\* socket.on('taskCompleted'): store the result, decrement, kick the driver at once
TaskCompleted(s, taskId, hasResult) ==
  /\ s \in connected
  /\ waitingTasks # <<>> => SumAwaiting(heap, DOMAIN heap) < env.awaiting
  /\ tasks' = IF taskId # NoId THEN UpdateCompleted(tasks, taskId, hasResult) ELSE tasks
  /\ processingTaskCount' = Decrement(processingTaskCount)
  /\ heap' = TrySubmitStart(heap, waitingTasks)
  /\ out' = <<>>
  /\ scheduled' = <<>>
  /\ UNCHANGED <<env, client, waitingTasks, timers, creating, connected, nextSocket, nextUuid,
                 nextTaskId, nextRef>>

\* --------------------------------------------------------------- deleteTask
\* what socket.on('deleteTask') leaves: the table, the array, the objects and
\* the events emitted
deleteTask(s, uniqueId, taskId, createdAt, isWaiting) ==
  LET db == IF uniqueId # NoId THEN DeleteWhere(tasks, "uniqueId", uniqueId)
            ELSE IF taskId # NoId THEN DeleteWhere(tasks, "taskId", taskId)
            ELSE IF createdAt # NoId THEN DeleteWhere(tasks, "createdAt", createdAt)
            ELSE tasks
      byUnique == IF uniqueId # NoId
                    THEN FindIndex(waitingTasks, heap, "uniqueId", uniqueId) ELSE 0
      taskIndex == IF byUnique = 0 /\ createdAt # NoId
                     THEN FindIndex(waitingTasks, heap, "createdAt", createdAt)
                     ELSE byUnique
  IN  IF isWaiting
        THEN IF taskIndex # 0
               THEN LET q == Splice(waitingTasks, taskIndex)
                    IN  [tasks |-> db, q |-> q, h |-> Collect(heap, q),
                         out |-> <<Msg(s, "taskDeleted", uniqueId, NoId, "success")>>]
               ELSE [tasks |-> db, q |-> waitingTasks, h |-> heap,
                     out |-> <<Msg(s, "taskDeleted", uniqueId, NoId, "notFound")>>]
        ELSE [tasks |-> db, q |-> waitingTasks, h |-> heap,
              out |-> IF taskId # NoId
                        THEN <<Msg(s, "taskDeleted", uniqueId, taskId, "success")>>
                        ELSE <<>>]

\* socket.on('deleteTask')
DeleteTask(s, uniqueId, taskId, createdAt, isWaiting) ==
  /\ s \in connected
  /\ LET r == deleteTask(s, uniqueId, taskId, createdAt, isWaiting)
     IN  /\ tasks' = r.tasks
         /\ waitingTasks' = r.q
         /\ heap' = r.h
         /\ out' = r.out
  /\ scheduled' = <<>>
  /\ UNCHANGED <<env, client, processingTaskCount, timers, creating, connected, nextSocket, nextUuid,
                 nextTaskId, nextRef>>

\* ----------------------------------------------------------- getClientTasks
\* SELECT ... WHERE clientId = ? ORDER BY createdAt DESC (ties in rowid order)
RECURSIVE OrderDesc(_, _)
OrderDesc(db, S) ==
  IF S = {} THEN <<>>
  ELSE LET i == CHOOSE x \in S : \A y \in S :
                  \/ db[x].createdAt > db[y].createdAt
                  \/ db[x].createdAt = db[y].createdAt /\ x <= y
       IN  <<db[i]>> \o OrderDesc(db, S \ {i})

ClientRows(db, clientId) ==
  OrderDesc(db, {i \in 1..Len(db) : db[i].clientId = clientId})

\* Restorable without the look-up of a live entry
RestorableUnchecked(row, q, h) ==
  /\ row.status \in {"WAITING", "QUEUED"}
  /\ row.nodeInfoList = "keyed"

\* Restorable that looks the live entry up by its socket id, which a rebuilt
\* entry does not carry
RestorableBySocket(row, q, h) ==
  /\ row.status \in {"WAITING", "QUEUED"}
  /\ row.nodeInfoList # "none"
  /\ \A i \in 1..Len(q) : h[q[i]].uniqueId = row.uniqueId => h[q[i]].socketId = NoId
  /\ row.nodeInfoList = "keyed"

\* the record is one getClientTasks puts back on waitingTasks: WAITING or QUEUED,
\* a stored nodeInfoList that yields apiKey and workflowId, no entry with its uniqueId
Restorable(row, q, h) ==
  /\ row.status \in {"WAITING", "QUEUED"}
  /\ row.nodeInfoList # "none"
  /\ FindIndex(q, h, "uniqueId", row.uniqueId) = 0
  /\ row.nodeInfoList = "keyed"

\* the forEach of getClientTasks over the rows read, from row k on; acc carries
\* the array, the objects, the next reference, the timers and the broadcasts,
\* and the processingTaskCount the loop reads
RECURSIVE RestoreFrom(_, _, _)
RestoreFrom(rows, k, acc) ==
  IF k > Len(rows) THEN acc
  ELSE LET row == rows[k]
           kick == acc.count < KICK_LIMIT
       IN  IF Restorable(row, acc.q, acc.h)
             THEN RestoreFrom(rows, k + 1,
                    [q |-> Push(acc.q, acc.ref),
                     h |-> acc.h @@ (acc.ref :>
                             WorkflowTask(NoId, row.uniqueId, row.clientId, row.createdAt)),
                     ref |-> acc.ref + 1,
                     count |-> acc.count,
                     timers |-> IF kick THEN acc.timers + 1 ELSE acc.timers,
                     scheduled |-> IF kick THEN Append(acc.scheduled, KICK_DELAY)
                                           ELSE acc.scheduled,
                     out |-> IF kick /\ connected # {}
                               THEN Append(acc.out, Broadcast("taskRecoveryUpdate",
                                      row.clientId, row.uniqueId, NoId, "WAITING"))
                               ELSE acc.out])
             ELSE RestoreFrom(rows, k + 1, acc)

getClientTasks(clientId) ==
  RestoreFrom(ClientRows(tasks, clientId), 1,
              [q |-> waitingTasks, h |-> heap, ref |-> nextRef, timers |-> timers,
               count |-> processingTaskCount, scheduled |-> <<>>, out |-> <<>>])

\* socket.on('getClientTasks')
GetClientTasks(s, clientId) ==
  /\ s \in connected
  /\ IF clientId = NoId
       THEN /\ out' = <<Msg(s, "clientTasks", NoId, NoId, "error")>>
            /\ scheduled' = <<>>
            /\ UNCHANGED <<waitingTasks, heap, nextRef, timers>>
       ELSE LET r == getClientTasks(clientId)
            IN  /\ r.ref <= env.lastRef + 1
                /\ r.timers <= MaxTimers
                /\ waitingTasks' = r.q
                /\ heap' = r.h
                /\ nextRef' = r.ref
                /\ timers' = r.timers
                /\ scheduled' = r.scheduled
                /\ out' = Append(r.out, Msg(s, "clientTasks", NoId, NoId, ""))
  /\ UNCHANGED <<env, client, tasks, processingTaskCount, creating, connected, nextSocket, nextUuid,
                 nextTaskId>>

\* ------------------------------------------------------------------- state
\* the state after createServer() over the tasks.db it finds: `table` holds the
\* records of earlier runs (none for a fresh file); uuids already used are not
\* drawn again
InitIn(envelope, table) ==
  /\ env = envelope
  /\ tasks = table
  /\ waitingTasks = <<>>
  /\ heap = NoObjects
  /\ processingTaskCount = 0
  /\ timers = 0
  /\ creating = {}
  /\ connected = {}
  /\ nextSocket = 1
  /\ nextUuid = Len(table) + 1
  /\ nextTaskId = 1
  /\ nextRef = 1
  /\ out = <<>>
  /\ scheduled = <<>>
  /\ client = ClientLoaded

Next ==
  \/ Connect
  \/ \E s \in connected : Disconnect(s)
  \/ \E s \in connected, c \in ClientIds \cup {NoId} : CreateWorkflow(s, c)
  \/ \E c \in creating, t \in env.timestamps, n \in env.nodeKinds, a \in Answers,
        st \in env.stores :
       CreateWorkflowResponse(c, t, n, a.resp, a.taskStatus, st)
  \/ TimerFires
  \/ \E ref \in DOMAIN heap, a \in Answers : TrySubmitResponse(ref, a.resp, a.taskStatus)
  \/ \E s \in connected, t \in 0..(nextTaskId - 1), b \in BOOLEAN : TaskCompleted(s, t, b)
  \/ \E s \in connected, u \in 0..(nextUuid - 1), t \in 0..(nextTaskId - 1),
        c \in env.timestamps \cup {NoId}, w \in BOOLEAN : DeleteTask(s, u, t, c, w)
  \/ \E s \in connected, c \in ClientIds \cup {NoId} : GetClientTasks(s, c)

\* two _timestamps, a nodeInfoList that names its apiKey and workflowId; driver
\* invocations one at a time
Init ==
  InitIn([awaiting |-> MaxAwaiting, timestamps |-> Timestamps, nodeKinds |-> {"keyed"},
          lastUuid |-> MaxCreate, stores |-> {"ok"},
          lastRef |-> MaxEntries, lastTaskId |-> MaxTaskIds], <<>>)

\* one _timestamp, both shapes of nodeInfoList
InitNodes ==
  InitIn([awaiting |-> MaxAwaiting, timestamps |-> {1}, nodeKinds |-> NodeKinds,
          lastUuid |-> MaxCreate, stores |-> {"ok"},
          lastRef |-> MaxEntries, lastTaskId |-> MaxTaskIds], <<>>)

\* overlapping driver invocations, one shape of request data
InitRace ==
  InitIn([awaiting |-> RaceAwaiting, timestamps |-> {1}, nodeKinds |-> {"keyed"},
          lastUuid |-> RaceCreate, stores |-> {"ok"},
          lastRef |-> MaxEntries, lastTaskId |-> MaxTaskIds], <<>>)

\* the tables a run that was stopped with its tasks still waiting leaves behind:
\* WAITING records of one client, stored one after the other, each with the
\* nodeInfoList of its request
StoredTables ==
  {[i \in 1..StoredRows |-> Row(i, NoId, 1, "WAITING", i, kinds[i])] :
     kinds \in [1..StoredRows -> NodeKinds]}

\* a restart over such a table
InitRecover ==
  \E table \in StoredTables :
    InitIn([awaiting |-> MaxAwaiting, timestamps |-> {1}, nodeKinds |-> {"keyed"},
            lastUuid |-> StoredRows + RecoverCreate, stores |-> {"ok"},
          lastRef |-> MaxEntries, lastTaskId |-> MaxTaskIds],
           table)

\* one request, whose task upstream may accept again and again after each
\* getClientTasks that queues its QUEUED record anew
InitBusy ==
  InitIn([awaiting |-> MaxAwaiting, timestamps |-> {1}, nodeKinds |-> {"keyed"},
          lastUuid |-> BusyCreate, stores |-> {"ok"},
          lastRef |-> BusyEntries, lastTaskId |-> BusyTaskIds], <<>>)

\* one request; upstream has a task id for every entry that can be queued
InitLive ==
  InitIn([awaiting |-> MaxAwaiting, timestamps |-> {1}, nodeKinds |-> {"keyed"},
          lastUuid |-> LiveCreate, stores |-> {"ok"},
          lastRef |-> LiveEntries, lastTaskId |-> LiveTaskIds], <<>>)

\* what the event loop and upstream guarantee: a pending timer fires, a pending
\* upstream call is answered (axios resolves or rejects, at the latest by its
\* 10 s timeout) and its handler resumes; and upstream, asked again and again,
\* does not refuse for ever.  Client events are under no obligation.
Fairness ==
  /\ WF_vars(TimerFires)
  /\ WF_vars(\E ref \in DOMAIN heap, a \in Answers :
               TrySubmitResponse(ref, a.resp, a.taskStatus))
  /\ SF_vars(\E ref \in DOMAIN heap, st \in UpstreamStatuses :
               TrySubmitResponse(ref, "ok_data", st))
  /\ WF_vars(\E c \in creating, t \in env.timestamps, n \in env.nodeKinds, a \in Answers,
                st \in env.stores :
               CreateWorkflowResponse(c, t, n, a.resp, a.taskStatus, st))

\* a store whose INSERTs may throw
InitStore ==
  InitIn([awaiting |-> MaxAwaiting, timestamps |-> {1}, nodeKinds |-> {"keyed"},
          lastUuid |-> MaxCreate, stores |-> Stores,
          lastRef |-> MaxEntries, lastTaskId |-> MaxTaskIds], <<>>)

Spec == Init /\ [][Next]_vars

SpecNodes == InitNodes /\ [][Next]_vars

SpecRace == InitRace /\ [][Next]_vars

SpecRecover == InitRecover /\ [][Next]_vars

SpecStore == InitStore /\ [][Next]_vars

SpecBusy == InitBusy /\ [][Next]_vars

\* every handler but deleteTask: the runs in which nothing is ever deleted
NextLive ==
  \/ Connect
  \/ \E s \in connected : Disconnect(s)
  \/ \E s \in connected, c \in ClientIds \cup {NoId} : CreateWorkflow(s, c)
  \/ \E c \in creating, t \in env.timestamps, n \in env.nodeKinds, a \in Answers,
        st \in env.stores :
       CreateWorkflowResponse(c, t, n, a.resp, a.taskStatus, st)
  \/ TimerFires
  \/ \E ref \in DOMAIN heap, a \in Answers : TrySubmitResponse(ref, a.resp, a.taskStatus)
  \/ \E s \in connected, t \in 0..(nextTaskId - 1), b \in BOOLEAN : TaskCompleted(s, t, b)
  \/ \E s \in connected, c \in ClientIds \cup {NoId} : GetClientTasks(s, c)

SpecLive == InitLive /\ [][NextLive]_vars /\ Fairness

\* the browser module on its own: the page adds tasks, reports completions and
\* removes tasks; timers fire and createWaitingTask settles
NextClient ==
  \/ AddToWaitingQueue
  \/ ProcessWaitingQueue
  \/ \E resp \in ClientAnswers, b \in BOOLEAN : ProcessWaitingQueueResponse(resp, b)
  \/ OnTaskCompleted
  \/ \E u \in 1..(client.nextUniqueId - 1) : RemoveFromWaitingQueue(u)

\* a pending timer fires, a pending createWaitingTask call settles, and upstream,
\* asked again and again, accepts
FairnessClient ==
  /\ WF_vars(ProcessWaitingQueue)
  /\ WF_vars(\E resp \in ClientAnswers, b \in BOOLEAN : ProcessWaitingQueueResponse(resp, b))
  /\ SF_vars(\E b \in BOOLEAN : ProcessWaitingQueueResponse("success_data", b))

SpecClient == Init /\ [][NextClient]_vars /\ FairnessClient

\* ================================================================== claims
Rows == Range(tasks)
Queue == [i \in 1..Len(waitingTasks) |-> heap[waitingTasks[i]]]

\* C1: a createWorkflow request without clientId makes no upstream call, stores
\* no record, adds no waitingTasks entry and sends exactly one workflowError to
\* the requesting socket.
C1_MissingClientIdRejected ==
  [][\A s \in connected :
       CreateWorkflow(s, NoId) =>
         /\ creating' = creating
         /\ tasks' = tasks
         /\ waitingTasks' = waitingTasks
         /\ out' = <<Msg(s, "workflowError", NoId, NoId, "missingClientId")>>]_vars

\* the rejection has happened: an error went out although no request reached upstream
C1_Witness ==
  /\ nextUuid = 1
  /\ Len(out) = 1
  /\ out[1].name = "workflowError"

\* C2 as stated: taskId is non-null at QUEUED, RUNNING and SUCCESS and null at
\* WAITING and RETRY, in every record.
C2_TaskIdMatchesStatus ==
  \A r \in Rows :
    /\ r.status \in {"QUEUED", "RUNNING", "SUCCESS"} => r.taskId # NoId
    /\ r.status \in {"WAITING", "RETRY"} => r.taskId = NoId

\* C2 amended: taskId is non-null at QUEUED and RUNNING and at a SUCCESS reached
\* through a taskCompleted notice, and null at WAITING and RETRY; a SUCCESS that
\* no taskCompleted notice produced (the record createWorkflow stores for a
\* success answer without data) may carry a null taskId.
C2_TaskIdMatchesStatusAmended ==
  \A r \in Rows :
    /\ r.status \in {"QUEUED", "RUNNING"} => r.taskId # NoId
    /\ r.status = "SUCCESS" /\ r.completedAt => r.taskId # NoId
    /\ r.status \in {"WAITING", "RETRY"} => r.taskId = NoId

\* a record the driver moved from waiting to accepted, next to a degenerate success
C2_Witness ==
  /\ \E r \in Rows : r.status \in {"QUEUED", "RUNNING"} /\ r.taskId # NoId
                     /\ r.uniqueId \notin {heap[x].uniqueId : x \in DOMAIN heap}
  /\ \E r \in Rows : r.status = "SUCCESS" /\ r.taskId = NoId

\* C3: waitingTasks never holds two entries with the same uniqueId.
C3_OneEntryPerUniqueId ==
  \A i, j \in 1..Len(waitingTasks) :
    Queue[i].uniqueId = Queue[j].uniqueId => i = j

\* an entry put back by getClientTasks stands behind one createWorkflow enqueued
C3_Witness ==
  /\ Len(waitingTasks) = 2
  /\ Queue[1].socketId # NoId
  /\ Queue[2].socketId = NoId

\* C4: getClientTasks twice in immediate succession: the second call leaves
\* waitingTasks as the first call left it, and neither call adds a record.
C4_ReconcileIdempotent ==
  [][\A s \in connected, c \in ClientIds :
       GetClientTasks(s, c) =>
         /\ (getClientTasks(c).q)' = waitingTasks'
         /\ tasks' = tasks]_vars

\* getClientTasks has just put an entry back (it broadcast the recovery and answered)
C4_Witness ==
  /\ Len(out) = 2
  /\ out[1].name = "taskRecoveryUpdate"
  /\ out[2].name = "clientTasks"
  /\ \E i \in 1..Len(waitingTasks) : Queue[i].socketId = NoId

\* C5: waitingTasks keeps its entries in the order they were enqueued
\* (references are handed out in push order), and a driver invocation only ever
\* holds an entry that has no earlier-enqueued entry in the array: an entry is
\* not submitted while one enqueued before it is still queued.
C5_Fifo ==
  /\ \A i, j \in 1..Len(waitingTasks) : i < j => waitingTasks[i] < waitingTasks[j]
  /\ \A r \in Awaiting(heap) : \A i \in 1..Len(waitingTasks) : r <= waitingTasks[i]

\* A before B, both still waiting after upstream answered nothing but capacity
\* rejections, and the head is being submitted once more
C5_Witness ==
  /\ Len(waitingTasks) = 2
  /\ nextTaskId = 1
  /\ \A r \in Rows : r.status = "WAITING"
  /\ Queue[1].awaiting = 1 /\ Queue[1].failures = 0
  /\ Queue[2].retryCount = -1

\* C6: a failed answer (business error or exception) for a queued entry: up to
\* its 5th failure the entry stays where it is and one more attempt is scheduled;
\* at its 6th failure it leaves the array and its record is FAILED.
C6_GiveUpAtSixthFailure ==
  [][\A ref \in DOMAIN heap, resp \in {"error", "throw"} :
       (TrySubmitResponse(ref, resp, "") /\ ref \in Range(waitingTasks)) =>
         IF heap[ref].failures + 1 <= 5
           THEN /\ waitingTasks' = waitingTasks
                /\ tasks' = tasks
                /\ timers' = timers + 1
                /\ Len(scheduled') = 1
           ELSE /\ heap[ref].failures + 1 = 6
                /\ ref \notin Range(waitingTasks')
                /\ \A r \in Range(tasks') :
                     r.uniqueId = heap[ref].uniqueId => r.status = "FAILED"]_vars

\* an entry was given up: its record is FAILED and it is queued no more
C6_Witness ==
  \E r \in Rows :
    /\ r.status = "FAILED" /\ r.error = FAILED_TEXT
    /\ \A i \in 1..Len(waitingTasks) : Queue[i].uniqueId # r.uniqueId

\* the delays of C7, written out
C7_Delay(k) ==
  CASE k = 1 -> 2000 [] k = 2 -> 4000 [] k = 3 -> 8000 [] k = 4 -> 16000 [] k = 5 -> 30000

\* C7: the retry scheduled after the k-th failure of an entry (k = 1..5) waits
\* min(1000 * 2^k, 30000) ms; the delays never decrease with k and never exceed
\* 30000 ms.
C7_BackoffDelays ==
  [][\A ref \in DOMAIN heap, resp \in {"error", "throw"} :
       (TrySubmitResponse(ref, resp, "") /\ heap[ref].failures + 1 <= 5) =>
         /\ scheduled' = <<C7_Delay(heap[ref].failures + 1)>>
         /\ scheduled'[1] <= 30000
         /\ heap[ref].failures >= 1 => scheduled'[1] >= C7_Delay(heap[ref].failures)]_vars

\* the capped delay has been scheduled (after a 5th failure)
C7_Witness ==
  /\ scheduled = <<30000>>
  /\ \E r \in DOMAIN heap : heap[r].failures = 5

\* C8: a capacity rejection answered to a driver invocation changes neither
\* waitingTasks nor any record, and leaves the entry's retryCount as it was.
C8_CapacityLeavesHead ==
  [][\A ref \in DOMAIN heap :
       TrySubmitResponse(ref, "capacity", "") =>
         /\ waitingTasks' = waitingTasks
         /\ tasks' = tasks
         /\ ref \in Range(waitingTasks) =>
              /\ heap'[ref].retryCount = heap[ref].retryCount
              /\ heap'[ref].failures = heap[ref].failures]_vars

\* an entry that was attempted and is still queued with no failure counted
C8_Witness ==
  \E i \in 1..Len(waitingTasks) :
    /\ Queue[i].retryCount = 0
    /\ Queue[i].awaiting = 0
    /\ \E r \in Rows : r.uniqueId = Queue[i].uniqueId /\ r.status = "WAITING"

\* C9: no WorkflowTask is held by two driver invocations awaiting upstream at
\* the same time.
C9_NoOverlappingAttempts ==
  \A r \in DOMAIN heap : heap[r].awaiting <= 1

\* C10: a createWorkflow that upstream accepts with a data payload stores
\* exactly one record, sends exactly one workflowCreated with the upstream
\* taskId and status, and adds no waitingTasks entry.
C10_ImmediateAcceptance ==
  [][\A c \in creating, t \in env.timestamps, n \in env.nodeKinds, st \in UpstreamStatuses :
       CreateWorkflowResponse(c, t, n, "ok_data", st, "ok") =>
         /\ Len(tasks') = Len(tasks) + 1
         /\ SubSeq(tasks', 1, Len(tasks)) = tasks
         /\ tasks'[Len(tasks')].uniqueId = c.uniqueId
         /\ tasks'[Len(tasks')].taskId = nextTaskId
         /\ tasks'[Len(tasks')].status = st
         /\ out' = <<Msg(c.socketId, "workflowCreated", c.uniqueId, nextTaskId, st)>>
         /\ waitingTasks' = waitingTasks]_vars

\* the acceptance has just been reported
C10_Witness ==
  /\ Len(out) = 1
  /\ out[1].name = "workflowCreated"
  /\ out[1].taskId # NoId
  /\ \E r \in Rows : r.uniqueId = out[1].uniqueId /\ r.taskId = out[1].taskId

\* the requests a client can send deleteTask with, as Next draws them
DeleteRequests ==
  [s : connected, u : 0..(nextUuid - 1), t : 0..(nextTaskId - 1),
   c : env.timestamps \cup {NoId}]

\* C11: deleteTask with isWaiting and a uniqueId that an entry of waitingTasks
\* carries removes that entry (and only it), deletes the record with that
\* uniqueId (and only it), and emits taskDeleted with success = true to the
\* requester: so the handler does from every reachable state, on every request.
C11_DeleteWaitingByUniqueId ==
  \A d \in DeleteRequests :
    (d.u # NoId /\ \E i \in 1..Len(waitingTasks) : Queue[i].uniqueId = d.u) =>
      LET r == deleteTask(d.s, d.u, d.t, d.c, TRUE)
      IN  /\ r.q = SelectSeq(waitingTasks, LAMBDA x : heap[x].uniqueId # d.u)
          /\ Len(r.q) = Len(waitingTasks) - 1
          /\ r.tasks = SelectSeq(tasks, LAMBDA x : x.uniqueId # d.u)
          /\ r.out = <<Msg(d.s, "taskDeleted", d.u, NoId, "success")>>

\* the waiting task 1 has just been deleted while task 2 waits on: no entry and
\* no record of task 1, success told
C11_Witness ==
  /\ out = <<Msg(1, "taskDeleted", 1, NoId, "success")>>
  /\ Len(waitingTasks) = 1 /\ Queue[1].uniqueId = 2
  /\ \E r \in Rows : r.uniqueId = 2
  /\ \A r \in Rows : r.uniqueId # 1

\* C12: deleteTask with isWaiting that matches no entry of waitingTasks, neither
\* by uniqueId nor by createdAt, emits taskDeleted with success = false and
\* leaves waitingTasks and its objects as they are (the handler ends normally:
\* DeleteTask changes nothing else but the table).
C12_DeleteWaitingNotFound ==
  \A d \in DeleteRequests :
    (\A i \in 1..Len(waitingTasks) :
       /\ d.u = NoId \/ Queue[i].uniqueId # d.u
       /\ d.c = NoId \/ Queue[i].createdAt # d.c) =>
      LET r == deleteTask(d.s, d.u, d.t, d.c, TRUE)
      IN  /\ r.out = <<Msg(d.s, "taskDeleted", d.u, NoId, "notFound")>>
          /\ r.q = waitingTasks
          /\ r.h = heap

\* not-found has just been reported while another task is queued
C12_Witness ==
  /\ Len(out) = 1 /\ out[1].name = "taskDeleted" /\ out[1].status = "notFound"
  /\ Len(waitingTasks) = 1
  /\ out[1].uniqueId # NoId /\ out[1].uniqueId # Queue[1].uniqueId

\* the client's records are two, both WAITING with a stored nodeInfoList, and
\* waitingTasks is empty
C13_TwoWaitingNoneQueued(c) ==
  /\ waitingTasks = <<>>
  /\ Len(ClientRows(tasks, c)) = 2
  /\ \A r \in Range(ClientRows(tasks, c)) : r.status = "WAITING" /\ r.nodeInfoList # "none"

\* getClientTasks run from the current state with processingTaskCount at n
C13_Reconciled(c, n) ==
  RestoreFrom(ClientRows(tasks, c), 1,
              [q |-> waitingTasks, h |-> heap, ref |-> nextRef, timers |-> timers,
               count |-> n, scheduled |-> <<>>, out |-> <<>>])

\* C13: getClientTasks for a client with two WAITING records (nodeInfoList
\* stored) and nothing queued puts exactly two entries on waitingTasks, one per
\* record, whatever the stored nodeInfoList holds and whatever the counter is.
C13_ReconcileTwoWaiting ==
  \A c \in ClientIds, n \in 0..(KICK_LIMIT + 1) :
    C13_TwoWaitingNoneQueued(c) =>
      LET r == C13_Reconciled(c, n)
      IN  /\ Len(r.q) = 2
          /\ {r.h[x].uniqueId : x \in Range(r.q)} =
               {row.uniqueId : row \in Range(ClientRows(tasks, c))}

\* getClientTasks has just answered over two WAITING records, one with the two
\* nodes and one without: the first one is queued again, the second is not
C13_Witness ==
  /\ out # <<>> /\ out[Len(out)].name = "clientTasks"
  /\ nextUuid = StoredRows + 1
  /\ Len(tasks) = 2
  /\ \A r \in Rows : r.status = "WAITING"
  /\ \E r \in Rows : r.nodeInfoList = "plain"
  /\ \E r \in Rows : r.nodeInfoList = "keyed" /\ Len(waitingTasks) = 1
                     /\ Queue[1].uniqueId = r.uniqueId /\ Queue[1].socketId = NoId
                     /\ Queue[1].retryCount = -1

\* C14: once a record is SUCCESS or FAILED no step changes its status, taskId,
\* result or error: a step keeps the record as it is in these columns or (a
\* deleteTask) removes it.
C14_TerminalRecordsFrozen ==
  [][\A r \in Rows :
       r.status \in {"SUCCESS", "FAILED"} =>
         \A r2 \in Range(tasks') :
           r2.uniqueId = r.uniqueId =>
             /\ r2.status = r.status /\ r2.taskId = r.taskId
             /\ r2.result = r.result /\ r2.error = r.error]_vars

\* C15: every createWorkflow that carries a clientId stores exactly one record
\* and sends exactly one notification to the requester, whatever upstream
\* answers (acceptance, success without data, capacity, other code, exception).
C15_OneRecordOneNotice ==
  [][\A c \in creating, t \in env.timestamps, n \in env.nodeKinds, a \in Answers :
       CreateWorkflowResponse(c, t, n, a.resp, a.taskStatus, "ok") =>
         /\ Len(tasks') = Len(tasks) + 1
         /\ Len(out') = 1 /\ out'[1].to = c.socketId]_vars

\* C16: when every INSERT of saveTaskToDb throws on the capacity or the
\* business-error path of createWorkflow, the task is on waitingTasks all the
\* same, the requester gets its workflowCreated, and the handler ends normally
\* (its call is no longer pending; no record was stored).
C16_StoreFailureKeepsQueue ==
  [][\A c \in creating, t \in env.timestamps, n \in env.nodeKinds,
        resp \in {"capacity", "error"} :
       CreateWorkflowResponse(c, t, n, resp, "", "fail") =>
         /\ tasks' = tasks
         /\ Len(waitingTasks') = Len(waitingTasks) + 1
         /\ heap'[waitingTasks'[Len(waitingTasks')]].uniqueId = c.uniqueId
         /\ out' = <<Msg(c.socketId, "workflowCreated", c.uniqueId, NoId,
                         IF resp = "capacity" THEN "WAITING" ELSE "RETRY")>>
         /\ c \notin creating']_vars

\* the task has just been reported queued, is queued, and has no record
C16_Witness ==
  /\ Len(out) = 1 /\ out[1].name = "workflowCreated"
  /\ out[1].status \in {"WAITING", "RETRY"}
  /\ waitingTasks # <<>> /\ Queue[Len(waitingTasks)].uniqueId = out[1].uniqueId
  /\ \A r \in Rows : r.uniqueId # out[1].uniqueId

\* C17: a createWorkflow that upstream accepts with a data payload increments
\* processingTaskCount by exactly one.
C17_AcceptanceCounts ==
  [][\A c \in creating, t \in env.timestamps, n \in env.nodeKinds, st \in UpstreamStatuses :
       CreateWorkflowResponse(c, t, n, "ok_data", st, "ok") =>
         processingTaskCount' = processingTaskCount + 1]_vars

\* C18: on the capacity rejection createWorkflow appends a new entry at the tail
\* of waitingTasks, stores one record WAITING with a null taskId, sends
\* workflowCreated with status WAITING and taskId null to the requester, and
\* schedules the delayed driver kick if and only if processingTaskCount is 0.
C18_CapacityEnqueue ==
  [][\A c \in creating, t \in env.timestamps, n \in env.nodeKinds :
       CreateWorkflowResponse(c, t, n, "capacity", "", "ok") =>
         /\ waitingTasks' = Append(waitingTasks, nextRef)
         /\ nextRef \notin DOMAIN heap
         /\ heap'[nextRef].uniqueId = c.uniqueId /\ heap'[nextRef].socketId = c.socketId
         /\ heap'[nextRef].clientId = c.clientId /\ heap'[nextRef].createdAt = t
         /\ tasks' = Append(tasks, Row(c.uniqueId, NoId, c.clientId, "WAITING", t, n))
         /\ out' = <<Msg(c.socketId, "workflowCreated", c.uniqueId, NoId, "WAITING")>>
         /\ IF processingTaskCount = 0
              THEN scheduled' = <<KICK_DELAY>> /\ timers' = timers + 1
              ELSE scheduled' = <<>> /\ timers' = timers]_vars

\* a task has just been queued at the tail while another is in flight: no kick
C18_Witness ==
  /\ Len(out) = 1 /\ out[1].name = "workflowCreated" /\ out[1].status = "WAITING"
  /\ processingTaskCount > 0 /\ scheduled = <<>>
  /\ waitingTasks # <<>> /\ Queue[Len(waitingTasks)].uniqueId = out[1].uniqueId
  /\ \E r \in Rows : r.uniqueId = out[1].uniqueId /\ r.status = "WAITING" /\ r.taskId = NoId

\* C19: on a non-success, non-capacity code createWorkflow queues the task and
\* stores it as RETRY and, if processingTaskCount is 0, schedules the delayed
\* driver kick as it does for a WAITING enqueue.
C19_RetryEnqueueKicks ==
  [][\A c \in creating, t \in env.timestamps, n \in env.nodeKinds :
       CreateWorkflowResponse(c, t, n, "error", "", "ok") =>
         /\ waitingTasks' = Append(waitingTasks, nextRef)
         /\ tasks' = Append(tasks, Row(c.uniqueId, NoId, c.clientId, "RETRY", t, n))
         /\ processingTaskCount = 0 =>
              scheduled' = <<KICK_DELAY>> /\ timers' = timers + 1]_vars

\* C20: when the upstream call of createWorkflow throws, the requester gets
\* exactly one workflowError and neither waitingTasks nor processingTaskCount
\* changes.
C20_ExceptionOnlyReports ==
  [][\A c \in creating, t \in env.timestamps, n \in env.nodeKinds, st \in env.stores :
       CreateWorkflowResponse(c, t, n, "throw", "", st) =>
         /\ out' = <<Msg(c.socketId, "workflowError", NoId, NoId, "createFailed")>>
         /\ waitingTasks' = waitingTasks
         /\ heap' = heap
         /\ processingTaskCount' = processingTaskCount
         /\ timers' = timers]_vars

\* the creation error has just been reported to the requester
C20_Witness ==
  /\ out = <<Msg(1, "workflowError", NoId, NoId, "createFailed")>>
  /\ nextUuid > 1
  /\ creating = {}

\* C21: when a driver attempt on the head entry gets a success answer (code 0 or
\* 200), then after it the entry is off waitingTasks, its record (if it still
\* has one) carries the upstream taskId and the upstream status, and
\* processingTaskCount is one higher.
C21_DriverSuccessUpdates ==
  [][\A ref \in Awaiting(heap), a \in Answers :
       ( /\ a.resp \in {"ok_data", "ok_nodata"}
         /\ waitingTasks # <<>> /\ waitingTasks[1] = ref
         /\ TrySubmitResponse(ref, a.resp, a.taskStatus) ) =>
         /\ ref \notin Range(waitingTasks')
         /\ \A r \in Range(tasks') :
              r.uniqueId = heap[ref].uniqueId =>
                r.taskId # NoId /\ r.status \in UpstreamStatuses
         /\ processingTaskCount' = processingTaskCount + 1]_vars

\* C22: when the failed answer that exhausts an entry's retries is handled, the
\* entry is off waitingTasks, its record (if it still has one) is FAILED with the
\* fixed error text and a completedAt, and the owning socket gets one
\* workflowStatusUpdate with status FAILED if it is live; if it is not, nothing
\* is emitted and the record is FAILED all the same.
C22_ExhaustedEntryFails ==
  [][\A ref \in Awaiting(heap), a \in Answers :
       ( /\ a.resp \in {"error", "throw"}
         /\ heap[ref].retryCount + 1 > MAX_RETRY_ATTEMPTS
         /\ TrySubmitResponse(ref, a.resp, a.taskStatus) ) =>
         /\ ref \notin Range(waitingTasks')
         /\ \A r \in Range(tasks') :
              r.uniqueId = heap[ref].uniqueId =>
                r.status = "FAILED" /\ r.error = FAILED_TEXT /\ r.completedAt
         /\ out' = IF heap[ref].socketId \in connected
                     THEN <<Msg(heap[ref].socketId, "workflowStatusUpdate", NoId, NoId,
                                "FAILED")>>
                     ELSE <<>>]_vars

\* the give-up has just been reported to the live owner; the record is FAILED
C22_Witness ==
  /\ Len(out) = 1 /\ out[1].name = "workflowStatusUpdate" /\ out[1].status = "FAILED"
  /\ out[1].to \in connected
  /\ \E r \in Rows : r.status = "FAILED" /\ r.error = FAILED_TEXT /\ r.completedAt
  /\ waitingTasks = <<>>

\* C23: the workflowStatusUpdate of a successful driver attempt goes to the
\* entry's owning socket alone when that socket is live; when it is gone, or the
\* entry was rebuilt by getClientTasks and carries no socket id, it is broadcast
\* and carries the entry's clientId.
C23_SuccessNoticeRouting ==
  [][\A ref \in Awaiting(heap), st \in UpstreamStatuses :
       TrySubmitResponse(ref, "ok_data", st) =>
         IF heap[ref].socketId # NoId /\ heap[ref].socketId \in connected
           THEN out' = <<Msg(heap[ref].socketId, "workflowStatusUpdate",
                             heap[ref].uniqueId, nextTaskId, st)>>
           ELSE /\ Len(out') = 1
                /\ out'[1].to = NoId /\ out'[1].name = "workflowStatusUpdate"
                /\ out'[1].clientId = heap[ref].clientId
                /\ out'[1].uniqueId = heap[ref].uniqueId
                /\ out'[1].taskId = nextTaskId /\ out'[1].status = st]_vars

\* the success of a rebuilt entry has just been broadcast while a socket is live
C23_Witness ==
  /\ Len(out) = 1 /\ out[1].name = "workflowStatusUpdate" /\ out[1].to = NoId
  /\ out[1].clientId \in ClientIds /\ out[1].taskId # NoId
  /\ connected # {}

\* C24: every taskCompleted decrements processingTaskCount by one, not below 0,
\* and, if waitingTasks is not empty, starts a driver attempt on its head in the
\* same handler, with no timer.
C24_CompletionKicksHead ==
  [][\A s \in connected, t \in 0..(nextTaskId - 1), b \in BOOLEAN :
       TaskCompleted(s, t, b) =>
         /\ processingTaskCount' =
              IF processingTaskCount = 0 THEN 0 ELSE processingTaskCount - 1
         /\ waitingTasks # <<>> =>
              /\ heap'[waitingTasks[1]].awaiting = heap[waitingTasks[1]].awaiting + 1
              /\ waitingTasks' = waitingTasks
              /\ timers' = timers /\ scheduled' = <<>>]_vars

\* a completion has been stored and the head, never attempted before and with
\* no timer pending, is being submitted
C24_Witness ==
  /\ waitingTasks # <<>> /\ Queue[1].awaiting = 1
  /\ Queue[1].retryCount = 0 /\ Queue[1].failures = 0
  /\ timers = 0 /\ out = <<>> /\ processingTaskCount = 0
  /\ \E r \in Rows : r.status = "SUCCESS" /\ r.completedAt /\ r.taskId # NoId

\* C25: a successful driver attempt starts no attempt and schedules none; an
\* upstream call for a queued entry is started only by a taskCompleted or by a
\* timer (the delayed kick of an enqueue or of getClientTasks, or a retry timer).
C25_SuccessStartsNothing ==
  [][/\ \A ref \in Awaiting(heap), a \in Answers :
          ( /\ a.resp \in {"ok_data", "ok_nodata"}
            /\ TrySubmitResponse(ref, a.resp, a.taskStatus) ) =>
            /\ scheduled' = <<>> /\ timers' = timers
            /\ \A r \in DOMAIN heap' : heap'[r].awaiting <= heap[r].awaiting
     /\ (\E r \in DOMAIN heap \cap DOMAIN heap' : heap'[r].awaiting > heap[r].awaiting) =>
          \/ TimerFires
          \/ \E s \in connected, t \in 0..(nextTaskId - 1), b \in BOOLEAN :
               TaskCompleted(s, t, b)]_vars

\* a success has just been reported and the next head waits: no attempt on it,
\* no timer
C25_Witness ==
  /\ Len(out) = 1 /\ out[1].name = "workflowStatusUpdate"
  /\ out[1].status \in UpstreamStatuses
  /\ waitingTasks # <<>> /\ Awaiting(heap) = {} /\ timers = 0 /\ scheduled = <<>>

\* C26: once deleteTask has taken an entry off waitingTasks, the answer to a
\* driver attempt that was awaiting upstream for that entry emits no
\* workflowStatusUpdate for it, does not increment processingTaskCount and
\* stores nothing under its uniqueId.  (Driver attempts run one at a time here,
\* so an object that is awaited and not on waitingTasks is one deleteTask removed.)
C26_DeletedEntryIsDropped ==
  [][\A ref \in Awaiting(heap), a \in Answers :
       ( /\ ref \notin Range(waitingTasks)
         /\ TrySubmitResponse(ref, a.resp, a.taskStatus) ) =>
         /\ \A i \in 1..Len(out') :
              out'[i].name = "workflowStatusUpdate" => out'[i].uniqueId # heap[ref].uniqueId
         /\ processingTaskCount' = processingTaskCount
         /\ (\A r \in Rows : r.uniqueId # heap[ref].uniqueId) =>
              \A r \in Range(tasks') : r.uniqueId # heap[ref].uniqueId]_vars

\* C27: every deleteTask with isWaiting false deletes the records its key
\* matches (uniqueId, else taskId, else createdAt) and sends the requester
\* exactly one taskDeleted, also when it carries a uniqueId and no taskId.
C27_DeleteStoredAcknowledged ==
  \A d \in DeleteRequests :
    (d.u # NoId \/ d.t # NoId \/ d.c # NoId) =>
      LET r == deleteTask(d.s, d.u, d.t, d.c, FALSE)
          matched == IF d.u # NoId THEN {x \in Rows : x.uniqueId = d.u}
                     ELSE IF d.t # NoId THEN {x \in Rows : x.taskId = d.t}
                     ELSE {x \in Rows : x.createdAt = d.c}
      IN  /\ Range(r.tasks) = Rows \ matched
          /\ Len(r.out) = 1
          /\ r.out[1].to = d.s /\ r.out[1].name = "taskDeleted"

\* C28: whenever deleteTask with isWaiting true answers success, the record of
\* the entry it took off waitingTasks is deleted too, also when the entry was
\* found by createdAt because the uniqueId given matched no entry.
C28_DeleteWaitingDeletesRecord ==
  \A d \in DeleteRequests :
    LET r == deleteTask(d.s, d.u, d.t, d.c, TRUE)
    IN  (r.out # <<>> /\ r.out[1].status = "success") =>
          \A ref \in Range(waitingTasks) \ Range(r.q) :
            \A row \in Range(r.tasks) : row.uniqueId # heap[ref].uniqueId

\* C29: getClientTasks puts a RETRY record that has a stored nodeInfoList (with
\* its apiKey and workflowId nodes) and no live entry back on waitingTasks, as
\* it does a WAITING or QUEUED one.
C29_ReconcileRetryRecords ==
  \A c \in ClientIds :
    connected # {} =>
      LET r == getClientTasks(c)
      IN  \A row \in Range(ClientRows(tasks, c)) :
            ( /\ row.status = "RETRY" /\ row.nodeInfoList = "keyed"
              /\ FindIndex(waitingTasks, heap, "uniqueId", row.uniqueId) = 0 ) =>
              \E i \in 1..Len(r.q) : r.h[r.q[i]].uniqueId = row.uniqueId

\* C30: for every entry getClientTasks newly puts on waitingTasks it broadcasts
\* a taskRecoveryUpdate with that clientId and uniqueId and status WAITING,
\* whatever processingTaskCount is.
C30_RecoveryAlwaysBroadcast ==
  [][\A s \in connected, c \in ClientIds :
       GetClientTasks(s, c) =>
         \A ref \in Range(waitingTasks') \ Range(waitingTasks) :
           \E i \in 1..Len(out') :
             out'[i] = Broadcast("taskRecoveryUpdate", c, heap'[ref].uniqueId, NoId,
                                 "WAITING")]_vars

\* C38: a disconnect leaves waitingTasks, its objects, processingTaskCount and
\* the tasks table as they are, pending timers too; and the driver takes the
\* head whoever owns it: a timer that fires over a non-empty array starts an
\* attempt on the head also when the head's socket is gone.
C38_DisconnectKeepsQueue ==
  [][/\ \A s \in connected :
          Disconnect(s) =>
            /\ waitingTasks' = waitingTasks /\ heap' = heap
            /\ processingTaskCount' = processingTaskCount
            /\ tasks' = tasks /\ timers' = timers
     /\ (TimerFires /\ waitingTasks # <<>>) =>
          heap'[waitingTasks[1]].awaiting = heap[waitingTasks[1]].awaiting + 1]_vars

\* the entry of a socket that has gone is at the head and is being submitted
C38_Witness ==
  /\ waitingTasks # <<>>
  /\ Queue[1].socketId # NoId /\ Queue[1].socketId \notin connected
  /\ Queue[1].awaiting = 1

\* C39: processingTaskCount is never negative, whatever taskCompleted events
\* arrive (repeated ones, ones for tasks the counter never counted).
C39_CounterNotNegative == processingTaskCount >= 0

\* a task createWorkflow got accepted directly was completed while no entry had
\* ever been queued: the counter, never incremented, is still 0
C39_Witness ==
  /\ processingTaskCount = 0 /\ nextRef = 1
  /\ \E r \in Rows : r.status = "SUCCESS" /\ r.completedAt /\ r.taskId # NoId

\* C40: between handler runs every entry on waitingTasks has retryCount
\* undefined or in 0..MAX_RETRY_ATTEMPTS: an entry whose retryCount went past 5
\* is not left queued.
C40_QueuedRetryCountBounded ==
  \A i \in 1..Len(waitingTasks) :
    Queue[i].retryCount = -1 \/ Queue[i].retryCount \in 0..MAX_RETRY_ATTEMPTS

\* the head has used its last retry and waits for the timer
C40_Witness ==
  /\ waitingTasks # <<>> /\ Queue[1].retryCount = MAX_RETRY_ATTEMPTS
  /\ Queue[1].awaiting = 0 /\ timers = 1

\* C32: a record that is QUEUED or RUNNING becomes SUCCESS or FAILED only in a
\* taskCompleted that names its taskId; the give-up on another task, even one of
\* the same client and createdAt, does not change it.
C32_OnlyCompletionEndsRunning ==
  [][\A r \in Rows :
       r.status \in {"QUEUED", "RUNNING"} =>
         \A r2 \in Range(tasks') :
           (r2.uniqueId = r.uniqueId /\ r2.status \in {"SUCCESS", "FAILED"}) =>
             /\ r.taskId # NoId
             /\ \E s \in connected, b \in BOOLEAN : TaskCompleted(s, r.taskId, b)]_vars

\* C34: a driver attempt takes off waitingTasks no entry but the one it called
\* upstream for, also when the head changed while it was awaiting.
C34_AttemptRemovesOwnEntry ==
  [][\A ref \in Awaiting(heap), a \in Answers :
       TrySubmitResponse(ref, a.resp, a.taskStatus) =>
         Range(waitingTasks) \ Range(waitingTasks') \subseteq {ref}]_vars

\* C35: once upstream has accepted a task (its record carries a taskId), no
\* driver attempt is started for an entry with that uniqueId.
C35_AcceptedAtMostOnce ==
  [][\A ref \in DOMAIN heap \cap DOMAIN heap' :
       heap'[ref].awaiting > heap[ref].awaiting =>
         \A r \in Rows : r.uniqueId = heap[ref].uniqueId => r.taskId = NoId]_vars

\* C36: with a working store, every record that is WAITING or RETRY has an
\* entry with its uniqueId on waitingTasks.
C36_PendingRecordsAreQueued ==
  \A r \in Rows :
    r.status \in {"WAITING", "RETRY"} =>
      \E i \in 1..Len(waitingTasks) : Queue[i].uniqueId = r.uniqueId

\* C37: the give-up on an entry changes no record but that of the entry's task:
\* every record with another uniqueId is left as it was.
C37_GiveUpTouchesOwnRecord ==
  [][\A ref \in Awaiting(heap), a \in Answers :
       ( /\ a.resp \in {"error", "throw"}
         /\ heap[ref].retryCount + 1 > MAX_RETRY_ATTEMPTS
         /\ TrySubmitResponse(ref, a.resp, a.taskStatus) ) =>
         /\ Len(tasks') = Len(tasks)
         /\ \A i \in 1..Len(tasks) :
              tasks[i].uniqueId # heap[ref].uniqueId => tasks'[i] = tasks[i]]_vars

\* the task with this uniqueId has an entry on waitingTasks
InQueue(u) == \E i \in 1..Len(waitingTasks) : Queue[i].uniqueId = u

\* C31: with timers firing, upstream calls answered and upstream not refusing
\* for ever, and with no client event needed, an entry that is queued with a
\* driver invocation scheduled eventually leaves waitingTasks: whatever the
\* invocation is answered, capacity rejection included, the head is attempted
\* again until it is accepted or given up.
C31_QueuedEntryLeaves ==
  \A u \in 1..LiveCreate : (InQueue(u) /\ timers > 0) ~> ~InQueue(u)

\* C33: in the browser's queue, once processWaitingQueue has created the head
\* task and removed it (the flag is still set and no call is pending), a task
\* that is still queued is eventually attempted, unless the page removes every
\* queued task first.
C33_NextTaskAttempted ==
  (client.isProcessingWaitingTasks /\ client.awaiting = 0 /\ client.waitingTasks # <<>>)
    ~> (client.awaiting > 0 \/ client.waitingTasks = <<>>)

====
